---- MODULE Spec2Model ----
(***************************************************************************)
(* A model of the type-metadata crate: Namespace construction              *)
(* (src/src/type_id.rs), the MetaType handle (src/src/meta_type.rs) and    *)
(* the compaction of sum types into a Registry (src/src/type/sum.rs).      *)
(*                                                                         *)
(* Strings are sequences of Unicode code points; `as_bytes` is their       *)
(* UTF-8 encoding.  Code points used below:                                *)
(*   95 '_'   97 'a'   98 'b'   90 'Z'   49 '1'   57 '9'   58 ':'          *)
(*   33 '!'   44 ','   32 ' '   233 'e-acute' (two bytes in UTF-8)         *)
(***************************************************************************)
EXTENDS Integers, Sequences, FiniteSets, TLC

VARIABLES
    ns_op,       \* the Namespace constructor the caller uses: "new" or "from_str"
    ns_pc,       \* "call" before the constructor ran, "done" after
    ns_segments, \* the segment list handed to Namespace::new
    ns_path,     \* the module path handed to Namespace::from_str
    ns_result,   \* the Result<Namespace, NamespaceError> returned
    stdout,      \* the segments printed by is_rust_identifier during the call
    handles,     \* the MetaType handles built so far, in order of construction
    made,        \* for each handle, the concrete type T it was built for and
                 \* the constructor that built it
    mt_op,       \* the last MetaType operation: its name, operands, result and
                 \* the resolver calls it made
    mt_prev,     \* the last any_id/type_id/type_def/hash call made before mt_op
    registry,    \* the Registry of the current compaction pass
    cp_calls,    \* how many values were compacted into it
    cp_in,       \* the TypeSum<MetaForm> last compacted
    cp_out,      \* the TypeSum<CompactForm> it became
    cp_before,   \* the tables of the Registry when that call began
    cp_log       \* the interning requests of that call, in order

nsVars == <<ns_op, ns_pc, ns_segments, ns_path, ns_result, stdout>>

mtVars == <<handles, made, mt_op, mt_prev>>

cpVars == <<registry, cp_calls, cp_in, cp_out, cp_before, cp_log>>

vars == <<nsVars, mtVars, cpVars>>

\* What the operations of one component leave alone.
notNs == <<mtVars, cpVars>>
notMt == <<nsVars, cpVars>>
notCp == <<nsVars, mtVars>>

(***************************************************************************)
(* Bounds of the model.                                                    *)
(***************************************************************************)
MaxSegs == 3        \* longest segment list handed to Namespace::new
MaxPathLen == 5     \* longest module path handed to Namespace::from_str
MaxHandles == 2     \* most MetaType handles built in one run
MaxCalls == 2       \* most values compacted into one Registry
MaxVariants == 2    \* most variants of a sum type

(***************************************************************************)
(* Small helpers on sequences.                                             *)
(***************************************************************************)
SeqsUpTo(S, n) == UNION {[1..k -> S] : k \in 0..n}

\* The segments a caller may pass: identifiers and every way of not being one.
Segments ==
    { <<>>,                \* ""      empty
      <<97>>,              \* "a"
      <<95>>,              \* "_"
      <<90, 57>>,          \* "Z9"
      <<97, 95>>,          \* "a_"
      <<49>>,              \* "1"     bad head: digit
      <<49, 97>>,          \* "1a"    bad head, good tail
      <<97, 33>>,          \* "a!"    good head, bad tail
      <<44, 32>>,          \* ", "    bad head and tail
      <<233>>,             \* non-ASCII head
      <<97, 233>> }        \* ASCII head, non-ASCII tail

\* The characters module paths are drawn from.
PathChars == {97, 49, 58}   \* 'a', '1', ':'

(***************************************************************************)
(* str::as_bytes / str::is_ascii (code points below 2048).                 *)
(***************************************************************************)
RECURSIVE as_bytes(_)
as_bytes(s) ==
    IF s = <<>> THEN <<>>
    ELSE LET c == Head(s)
         IN  (IF c < 128 THEN <<c>>
              ELSE <<192 + (c \div 64), 128 + (c % 64)>>) \o as_bytes(Tail(s))

is_ascii(s) == \A i \in 1..Len(as_bytes(s)) : as_bytes(s)[i] < 128

(***************************************************************************)
(* fn is_rust_identifier(s: &str) -> bool       type_id.rs:63-81           *)
(***************************************************************************)
\* head_ok as it would be had the upper-case range been forgotten.
head_ok_no_upper(head) ==
    \/ head = 95
    \/ head >= 97 /\ head <= 122

head_ok(head) ==
    \/ head = 95
    \/ head >= 97 /\ head <= 122
    \/ head >= 65 /\ head <= 90

tail_ch_ok(ch) ==
    \/ ch = 95
    \/ ch >= 97 /\ ch <= 122
    \/ ch >= 65 /\ ch <= 90
    \/ ch >= 48 /\ ch <= 57

is_rust_identifier(s) ==
    IF ~is_ascii(s) THEN FALSE
    ELSE LET bytes == as_bytes(s)
         IN  IF bytes # <<>>
             THEN LET head == Head(bytes)
                      tail == Tail(bytes)
                      tail_ok == \A i \in 1..Len(tail) : tail_ch_ok(tail[i])
                  IN  head_ok(head) /\ tail_ok
             ELSE FALSE

(***************************************************************************)
(* Iterator::position over the segments with the closure                   *)
(* |seg| !is_rust_identifier(seg): the 0-based index of the first segment  *)
(* the closure accepts, or None (-1).  The closure is run on segments      *)
(* 0..=k only; `printed` collects what its println! wrote.                 *)
(***************************************************************************)
None == -1

\* position as it would be if it kept scanning and reported the last match.
RECURSIVE position_last(_, _, _)
position_last(segments, i, printed) ==
    IF i > Len(segments)
    THEN [at |-> IF \E j \in 1..Len(segments) : ~is_rust_identifier(segments[j])
                 THEN (CHOOSE j \in 1..Len(segments) :
                          /\ ~is_rust_identifier(segments[j])
                          /\ \A l \in (j + 1)..Len(segments) :
                                 is_rust_identifier(segments[l])) - 1
                 ELSE None,
          printed |-> printed]
    ELSE position_last(segments, i + 1, Append(printed, segments[i]))

RECURSIVE position(_, _, _)
position(segments, i, printed) ==
    IF i > Len(segments) THEN [at |-> None, printed |-> printed]
    ELSE IF ~is_rust_identifier(segments[i])
         THEN [at |-> i - 1, printed |-> Append(printed, segments[i])]
         ELSE position(segments, i + 1, Append(printed, segments[i]))

(***************************************************************************)
(* Results of the Namespace constructors.                                  *)
(***************************************************************************)
Ok(segs) == [tag |-> "Ok", segments |-> segs, segment |-> None]
MissingSegments == [tag |-> "MissingSegments", segments |-> <<>>, segment |-> None]
InvalidIdentifier(k) == [tag |-> "InvalidIdentifier", segments |-> <<>>, segment |-> k]

(***************************************************************************)
(* Namespace::new                               type_id.rs:53-87           *)
(* Returns the result together with what was printed on the way.           *)
(***************************************************************************)
\* Namespace_new as it would be without the check for an empty list.
Namespace_new_no_len_check(segments) ==
    LET p == position(segments, 1, <<>>)
    IN  IF p.at # None
        THEN [result |-> InvalidIdentifier(p.at), printed |-> p.printed]
        ELSE [result |-> Ok(segments), printed |-> p.printed]

Namespace_new(segments) ==
    IF Len(segments) = 0
    THEN [result |-> MissingSegments, printed |-> <<>>]
    ELSE LET p == position(segments, 1, <<>>)
         IN  IF p.at # None
             THEN [result |-> InvalidIdentifier(p.at), printed |-> p.printed]
             ELSE [result |-> Ok(segments), printed |-> p.printed]

(***************************************************************************)
(* str::split("::"): non-overlapping matches of the separator, searched    *)
(* left to right; the pieces between them, the last one included even      *)
(* when empty.                                                             *)
(***************************************************************************)
\* split as it would be had the separator been written ":".
RECURSIVE split_single_colon(_, _, _, _)
split_single_colon(path, i, cur, acc) ==
    IF i > Len(path) THEN Append(acc, cur)
    ELSE IF path[i] = 58
         THEN split_single_colon(path, i + 1, <<>>, Append(acc, cur))
         ELSE split_single_colon(path, i + 1, Append(cur, path[i]), acc)

RECURSIVE split(_, _, _, _)
split(path, i, cur, acc) ==
    IF i > Len(path) THEN Append(acc, cur)
    ELSE IF i + 1 <= Len(path) /\ path[i] = 58 /\ path[i + 1] = 58
         THEN split(path, i + 2, <<>>, Append(acc, cur))
         ELSE split(path, i + 1, Append(cur, path[i]), acc)

(***************************************************************************)
(* Namespace::from_str                          type_id.rs:94-96           *)
(***************************************************************************)
Namespace_from_str(module_path) ==
    Namespace_new(split(module_path, 1, <<>>, <<>>))

(***************************************************************************)
(* A caller of the Namespace constructors: it holds an argument, makes     *)
(* one call and keeps the result.                                          *)
(***************************************************************************)
InitNs ==
    /\ ns_pc = "call"
    /\ \/ /\ ns_op = "new"
          /\ ns_segments \in SeqsUpTo(Segments, MaxSegs)
          /\ ns_path = <<>>
       \/ /\ ns_op = "from_str"
          /\ ns_segments = <<>>
          /\ ns_path \in SeqsUpTo(PathChars, MaxPathLen)
    /\ ns_result = MissingSegments
    /\ stdout = <<>>

CallNew ==
    /\ ns_pc = "call"
    /\ ns_op = "new"
    /\ LET r == Namespace_new(ns_segments)
       IN  /\ ns_result' = r.result
           /\ stdout' = r.printed
    /\ ns_pc' = "done"
    /\ UNCHANGED <<ns_op, ns_segments, ns_path>>
    /\ UNCHANGED notNs

CallFromStr ==
    /\ ns_pc = "call"
    /\ ns_op = "from_str"
    /\ LET r == Namespace_from_str(ns_path)
       IN  /\ ns_result' = r.result
           /\ stdout' = r.printed
    /\ ns_pc' = "done"
    /\ UNCHANGED <<ns_op, ns_segments, ns_path>>
    /\ UNCHANGED notNs

NextNs == CallNew \/ CallFromStr

(***************************************************************************)
(* MetaType                                     meta_type.rs               *)
(*                                                                         *)
(* The concrete types handles are built for.  "Str" and "String" are two   *)
(* types described by the same TypeId and TypeDef; "List" is described by  *)
(* a TypeDef that holds a handle of "List" itself.                         *)
(***************************************************************************)
Types == {"Str", "String", "List"}

\* core::any::TypeId::of::<T>(): one opaque token per type, totally ordered.
AnyTypeId_of(T) ==
    CASE T = "Str" -> 7
      [] T = "String" -> 2
      [] T = "List" -> 5

\* A function pointer to the implementation of a trait method for type T.
FnPtr(trait, T) == [trait |-> trait, for |-> T]

(***************************************************************************)
(* MetaType::new::<T>()                         meta_type.rs:75-84         *)
(***************************************************************************)
MetaType_new(T) ==
    [fn_type_id |-> FnPtr("HasTypeId", T),
     fn_type_def |-> FnPtr("HasTypeDef", T),
     any_id |-> AnyTypeId_of(T)]

(***************************************************************************)
(* MetaType::of::<T>(_elem: &T)                 meta_type.rs:86-91         *)
(***************************************************************************)
\* of as it would be if it took the token of the reference type &T.
MetaType_of_ref_token(elem, T) ==
    [fn_type_id |-> FnPtr("HasTypeId", T),
     fn_type_def |-> FnPtr("HasTypeDef", T),
     any_id |-> AnyTypeId_of(T) + 100]

MetaType_of(elem, T) == MetaType_new(T)

(***************************************************************************)
(* The implementations of HasTypeId::type_id and HasTypeDef::type_def the  *)
(* function pointers lead to: pure functions of the implementing type.     *)
(***************************************************************************)
HasTypeId_type_id(T) ==
    CASE T \in {"Str", "String"} ->
             [variant |-> "Primitive", name |-> "Str",
              namespace |-> <<>>, type_params |-> <<>>]
      [] T = "List" ->
             [variant |-> "Custom", name |-> "List",
              namespace |-> <<"m">>, type_params |-> <<>>]

HasTypeDef_type_def(T) ==
    CASE T \in {"Str", "String"} ->
             [variant |-> "Builtin", fields |-> <<>>]
      [] T = "List" ->
             [variant |-> "Struct", fields |-> <<MetaType_new("List")>>]

\* Calling a function pointer.
CallFn(fn) ==
    IF fn.trait = "HasTypeId" THEN HasTypeId_type_id(fn.for)
    ELSE HasTypeDef_type_def(fn.for)

\* What an operation hands back: its value and the resolvers it invoked.
Ret(value, calls) == [result |-> value, calls |-> calls]

(***************************************************************************)
(* MetaType::type_id / type_def / any_id        meta_type.rs:93-103        *)
(***************************************************************************)
MetaType_type_id(self) == Ret(CallFn(self.fn_type_id), <<self.fn_type_id>>)

MetaType_type_def(self) == Ret(CallFn(self.fn_type_def), <<self.fn_type_def>>)

MetaType_any_id(self) == Ret(self.any_id, <<>>)

(***************************************************************************)
(* Ordering of two tokens (u64 comparison inside core::any::TypeId).       *)
(***************************************************************************)
AnyTypeId_cmp(x, y) ==
    IF x < y THEN "Less" ELSE IF x = y THEN "Equal" ELSE "Greater"

Some(v) == <<"Some", v>>

(***************************************************************************)
(* impl PartialEq / PartialOrd / Ord / Hash for MetaType                   *)
(*                                              meta_type.rs:39-66         *)
(***************************************************************************)
\* eq as it would be if it compared the resolved type identifiers.
MetaType_eq_by_type_id(self, other) ==
    Ret(CallFn(self.fn_type_id) = CallFn(other.fn_type_id),
        <<self.fn_type_id, other.fn_type_id>>)

MetaType_eq(self, other) == Ret(self.any_id = other.any_id, <<>>)

MetaType_partial_cmp(self, other) ==
    Ret(Some(AnyTypeId_cmp(self.any_id, other.any_id)), <<>>)

MetaType_cmp(self, other) ==
    Ret(AnyTypeId_cmp(self.any_id, other.any_id), <<>>)

\* The hasher is the sequence of values written to it.
MetaType_hash(self, state) == Ret(Append(state, self.any_id), <<>>)

(***************************************************************************)
(* A program that builds handles and uses them.                            *)
(***************************************************************************)
NoOp == [op |-> "none", a |-> 0, b |-> 0, result |-> 0, calls |-> <<>>]

Op(name, a, b, ret) ==
    [op |-> name, a |-> a, b |-> b, result |-> ret.result, calls |-> ret.calls]

Observers == {"any_id", "type_id", "type_def", "hash"}

\* mt_prev after a step: the operation just replaced, if it was an observer.
Remember == IF mt_op.op \in Observers THEN mt_op ELSE mt_prev

InitMt ==
    /\ handles = <<>>
    /\ made = <<>>
    /\ mt_op = NoOp
    /\ mt_prev = NoOp

New ==
    /\ Len(handles) < MaxHandles
    /\ \E T \in Types :
        /\ handles' = Append(handles, MetaType_new(T))
        /\ made' = Append(made, [T |-> T, by |-> "new"])
        /\ mt_op' = Op("new", Len(handles) + 1, 0, Ret(0, <<>>))
    /\ mt_prev' = Remember
    /\ UNCHANGED notMt

Of ==
    /\ Len(handles) < MaxHandles
    /\ \E T \in Types, elem \in {0, 1} :
        /\ handles' = Append(handles, MetaType_of(elem, T))
        /\ made' = Append(made, [T |-> T, by |-> "of"])
        /\ mt_op' = Op("of", Len(handles) + 1, 0, Ret(0, <<>>))
    /\ mt_prev' = Remember
    /\ UNCHANGED notMt

Eq ==
    /\ \E a, b \in 1..Len(handles) :
        mt_op' = Op("eq", a, b, MetaType_eq(handles[a], handles[b]))
    /\ mt_prev' = Remember
    /\ UNCHANGED <<handles, made>>
    /\ UNCHANGED notMt

PartialCmp ==
    /\ \E a, b \in 1..Len(handles) :
        mt_op' = Op("partial_cmp", a, b,
                    MetaType_partial_cmp(handles[a], handles[b]))
    /\ mt_prev' = Remember
    /\ UNCHANGED <<handles, made>>
    /\ UNCHANGED notMt

Cmp ==
    /\ \E a, b \in 1..Len(handles) :
        mt_op' = Op("cmp", a, b, MetaType_cmp(handles[a], handles[b]))
    /\ mt_prev' = Remember
    /\ UNCHANGED <<handles, made>>
    /\ UNCHANGED notMt

Hash ==
    /\ \E a \in 1..Len(handles) :
        mt_op' = Op("hash", a, 0, MetaType_hash(handles[a], <<>>))
    /\ mt_prev' = Remember
    /\ UNCHANGED <<handles, made>>
    /\ UNCHANGED notMt

TypeIdOf ==
    /\ \E a \in 1..Len(handles) :
        mt_op' = Op("type_id", a, 0, MetaType_type_id(handles[a]))
    /\ mt_prev' = Remember
    /\ UNCHANGED <<handles, made>>
    /\ UNCHANGED notMt

TypeDefOf ==
    /\ \E a \in 1..Len(handles) :
        mt_op' = Op("type_def", a, 0, MetaType_type_def(handles[a]))
    /\ mt_prev' = Remember
    /\ UNCHANGED <<handles, made>>
    /\ UNCHANGED notMt

AnyIdOf ==
    /\ \E a \in 1..Len(handles) :
        mt_op' = Op("any_id", a, 0, MetaType_any_id(handles[a]))
    /\ mt_prev' = Remember
    /\ UNCHANGED <<handles, made>>
    /\ UNCHANGED notMt

NextMt ==
    \/ New \/ Of
    \/ Eq \/ PartialCmp \/ Cmp \/ Hash
    \/ TypeIdOf \/ TypeDefOf \/ AnyIdOf

(***************************************************************************)
(* Registry: the interning tables a compaction pass writes to.  Indices    *)
(* are 0-based positions in the tables.  A context is the Registry         *)
(* together with the log of the interning requests made so far.            *)
(***************************************************************************)
Registry_new == [strings |-> <<>>, types |-> <<>>]

Ctx(reg, log) == [strings |-> reg.strings, types |-> reg.types, log |-> log]

\* What a step of compaction hands back: the context and the compact value.
Done(ctx, out) == [ctx |-> ctx, out |-> out]

\* `let x = v; F(x)`: v is evaluated once and F applied to its value.
Bind(v, F(_)) == CHOOSE y \in {F(x) : x \in {v}} : TRUE

IndexOf(table, x) == (CHOOSE i \in 1..Len(table) : table[i] = x) - 1

LogEntry(kind, arg, idx) == [kind |-> kind, arg |-> arg, idx |-> idx]

\* register_string as it would be without the look-up of strings seen before.
register_string_always_appends(ctx, s) ==
    Done([ctx EXCEPT !.strings = Append(@, s),
                     !.log = Append(@, LogEntry("string", s, Len(ctx.strings)))],
         Len(ctx.strings))

register_string(ctx, s) ==
    IF \E i \in 1..Len(ctx.strings) : ctx.strings[i] = s
    THEN Done([ctx EXCEPT !.log = Append(@, LogEntry("string", s,
                                                     IndexOf(ctx.strings, s)))],
              IndexOf(ctx.strings, s))
    ELSE Done([ctx EXCEPT !.strings = Append(@, s),
                          !.log = Append(@, LogEntry("string", s,
                                                     Len(ctx.strings)))],
              Len(ctx.strings))

\* Interning of a compacted type under its identity token.
TypeIds(ctx) == [i \in 1..Len(ctx.types) |-> ctx.types[i].id]

intern_type(ctx, identity, value) ==
    IF \E i \in 1..Len(ctx.types) : ctx.types[i].id = identity
    THEN Done([ctx EXCEPT !.log = Append(@, LogEntry("type", identity,
                                                     IndexOf(TypeIds(ctx), identity)))],
              IndexOf(TypeIds(ctx), identity))
    ELSE Done([ctx EXCEPT !.types = Append(@, [id |-> identity, value |-> value]),
                          !.log = Append(@, LogEntry("type", identity,
                                                     Len(ctx.types)))],
              Len(ctx.types))

\* The loops below (`.into_iter().map(..).collect()`) compact element
\* Len(acc) + 1 next, with the context the elements before it left.

\* The segments of a namespace, interned left to right.
RECURSIVE Namespace_into_compact(_, _, _)
Namespace_into_compact(segs, ctx, acc) ==
    IF Len(acc) = Len(segs) THEN Done(ctx, acc)
    ELSE Bind(register_string(ctx, segs[Len(acc) + 1]), LAMBDA r :
            Namespace_into_compact(segs, r.ctx, Append(acc, r.out)))

\* A TypeId: its strings are interned; a primitive holds none.  The types
\* of this model carry no type parameters.
TypeId_into_compact(tid, ctx) ==
    IF tid.variant = "Primitive"
    THEN Done(ctx, [variant |-> "Primitive", name |-> tid.name])
    ELSE Bind(register_string(ctx, tid.name), LAMBDA n :
         Bind(Namespace_into_compact(tid.namespace, n.ctx, <<>>), LAMBDA ns :
            Done(ns.ctx, [variant |-> "Custom", name |-> n.out,
                          namespace |-> ns.out, type_params |-> <<>>])))

\* A nested type: resolved, compacted, then interned as a whole under the
\* identity token of its handle.
register_type(ctx, ty) ==
    Bind(TypeId_into_compact(CallFn(ty.fn_type_id), ctx), LAMBDA c :
        intern_type(c.ctx, ty.any_id, c.out))

RECURSIVE register_types(_, _, _)
register_types(tys, ctx, acc) ==
    IF Len(acc) = Len(tys) THEN Done(ctx, acc)
    ELSE Bind(register_type(ctx, tys[Len(acc) + 1]), LAMBDA r :
            register_types(tys, r.ctx, Append(acc, r.out)))

\* TypePath: name, namespace, type parameters.
TypePath_into_compact(self, ctx) ==
    Bind(register_string(ctx, self.name), LAMBDA n :
    Bind(Namespace_into_compact(self.namespace, n.ctx, <<>>), LAMBDA ns :
    Bind(register_types(self.type_params, ns.ctx, <<>>), LAMBDA ps :
        Done(ps.ctx, [name |-> n.out, namespace |-> ns.out,
                      type_params |-> ps.out]))))

\* NamedField: name, then type.  UnnamedField: type.
NamedField_into_compact(self, ctx) ==
    Bind(register_string(ctx, self.name), LAMBDA n :
    Bind(register_type(n.ctx, self.ty), LAMBDA ty :
        Done(ty.ctx, [name |-> n.out, ty |-> ty.out])))

UnnamedField_into_compact(self, ctx) ==
    Bind(register_type(ctx, self.ty), LAMBDA ty :
        Done(ty.ctx, [ty |-> ty.out]))

RECURSIVE NamedFields_into_compact(_, _, _)
NamedFields_into_compact(fields, ctx, acc) ==
    IF Len(acc) = Len(fields) THEN Done(ctx, acc)
    ELSE Bind(NamedField_into_compact(fields[Len(acc) + 1], ctx), LAMBDA r :
            NamedFields_into_compact(fields, r.ctx, Append(acc, r.out)))

RECURSIVE UnnamedFields_into_compact(_, _, _)
UnnamedFields_into_compact(fields, ctx, acc) ==
    IF Len(acc) = Len(fields) THEN Done(ctx, acc)
    ELSE Bind(UnnamedField_into_compact(fields[Len(acc) + 1], ctx), LAMBDA r :
            UnnamedFields_into_compact(fields, r.ctx, Append(acc, r.out)))

(***************************************************************************)
(* impl IntoCompact for ClikeEnumVariant        sum.rs:132-141             *)
(***************************************************************************)
\* into_compact as it would be if the name were interned into a copy of the
\* Registry and the copy dropped.
ClikeEnumVariant_into_compact_on_copy(self, ctx) ==
    Bind(register_string(ctx, self.name), LAMBDA n :
        Done(ctx, [name |-> n.out, discriminant |-> self.discriminant]))

ClikeEnumVariant_into_compact(self, ctx) ==
    Bind(register_string(ctx, self.name), LAMBDA n :
        Done(n.ctx, [name |-> n.out, discriminant |-> self.discriminant]))

RECURSIVE ClikeEnumVariants_into_compact(_, _, _)
ClikeEnumVariants_into_compact(variants, ctx, acc) ==
    IF Len(acc) = Len(variants) THEN Done(ctx, acc)
    ELSE Bind(ClikeEnumVariant_into_compact(variants[Len(acc) + 1], ctx),
              LAMBDA r :
            ClikeEnumVariants_into_compact(variants, r.ctx, Append(acc, r.out)))

(***************************************************************************)
(* impl IntoCompact for TypeSumClikeEnum        sum.rs:76-89               *)
(***************************************************************************)
TypeSumClikeEnum_into_compact(self, ctx) ==
    Bind(TypePath_into_compact(self.path, ctx), LAMBDA p :
    Bind(ClikeEnumVariants_into_compact(self.variants, p.ctx, <<>>), LAMBDA vs :
        Done(vs.ctx, [path |-> p.out, variants |-> vs.out])))

(***************************************************************************)
(* impl IntoCompact for EnumVariantUnit / EnumVariantStruct /              *)
(* EnumVariantTupleStruct                       sum.rs:258-266, 296-309,   *)
(*                                              348-361                    *)
(***************************************************************************)
\* into_compact as it would be if the name were pushed to the table without
\* the look-up of strings seen before.
EnumVariantUnit_into_compact_no_lookup(self, ctx) ==
    Bind(register_string_always_appends(ctx, self.name), LAMBDA n :
        Done(n.ctx, [name |-> n.out]))

EnumVariantUnit_into_compact(self, ctx) ==
    Bind(register_string(ctx, self.name), LAMBDA n :
        Done(n.ctx, [name |-> n.out]))

EnumVariantStruct_into_compact(self, ctx) ==
    Bind(register_string(ctx, self.name), LAMBDA n :
    Bind(NamedFields_into_compact(self.fields, n.ctx, <<>>), LAMBDA fs :
        Done(fs.ctx, [name |-> n.out, fields |-> fs.out])))

\* into_compact as it would be if the fields were compacted before the name
\* is interned.
EnumVariantTupleStruct_into_compact_fields_first(self, ctx) ==
    Bind(UnnamedFields_into_compact(self.fields, ctx, <<>>), LAMBDA fs :
    Bind(register_string(fs.ctx, self.name), LAMBDA n :
        Done(n.ctx, [name |-> n.out, fields |-> fs.out])))

EnumVariantTupleStruct_into_compact(self, ctx) ==
    Bind(register_string(ctx, self.name), LAMBDA n :
    Bind(UnnamedFields_into_compact(self.fields, n.ctx, <<>>), LAMBDA fs :
        Done(fs.ctx, [name |-> n.out, fields |-> fs.out])))

(***************************************************************************)
(* impl IntoCompact for EnumVariant             sum.rs:226-236             *)
(* A variant is [kind, v]: the enum's tag and the wrapped struct.          *)
(***************************************************************************)
\* into_compact as it would be with the tuple-struct arm wrapping its result
\* in the Struct variant.
EnumVariant_into_compact_tuple_as_struct(self, ctx) ==
    CASE self.kind = "Unit" ->
             Bind(EnumVariantUnit_into_compact(self.v, ctx), LAMBDA r :
                 Done(r.ctx, [kind |-> "Unit", v |-> r.out]))
      [] self.kind = "Struct" ->
             Bind(EnumVariantStruct_into_compact(self.v, ctx), LAMBDA r :
                 Done(r.ctx, [kind |-> "Struct", v |-> r.out]))
      [] self.kind = "TupleStruct" ->
             Bind(EnumVariantTupleStruct_into_compact(self.v, ctx), LAMBDA r :
                 Done(r.ctx, [kind |-> "Struct", v |-> r.out]))

EnumVariant_into_compact(self, ctx) ==
    CASE self.kind = "Unit" ->
             Bind(EnumVariantUnit_into_compact(self.v, ctx), LAMBDA r :
                 Done(r.ctx, [kind |-> "Unit", v |-> r.out]))
      [] self.kind = "Struct" ->
             Bind(EnumVariantStruct_into_compact(self.v, ctx), LAMBDA r :
                 Done(r.ctx, [kind |-> "Struct", v |-> r.out]))
      [] self.kind = "TupleStruct" ->
             Bind(EnumVariantTupleStruct_into_compact(self.v, ctx), LAMBDA r :
                 Done(r.ctx, [kind |-> "TupleStruct", v |-> r.out]))

RECURSIVE EnumVariants_into_compact(_, _, _)
EnumVariants_into_compact(variants, ctx, acc) ==
    IF Len(acc) = Len(variants) THEN Done(ctx, acc)
    ELSE Bind(EnumVariant_into_compact(variants[Len(acc) + 1], ctx), LAMBDA r :
            EnumVariants_into_compact(variants, r.ctx, Append(acc, r.out)))

(***************************************************************************)
(* impl IntoCompact for TypeSumEnum             sum.rs:181-194             *)
(***************************************************************************)
TypeSumEnum_into_compact(self, ctx) ==
    Bind(TypePath_into_compact(self.path, ctx), LAMBDA p :
    Bind(EnumVariants_into_compact(self.variants, p.ctx, <<>>), LAMBDA vs :
        Done(vs.ctx, [path |-> p.out, variants |-> vs.out])))

(***************************************************************************)
(* impl IntoCompact for TypeSum                 sum.rs:35-46               *)
(***************************************************************************)
TypeSum_into_compact(self, ctx) ==
    CASE self.kind = "ClikeEnum" ->
             Bind(TypeSumClikeEnum_into_compact(self.v, ctx), LAMBDA r :
                 Done(r.ctx, [kind |-> "ClikeEnum", v |-> r.out]))
      [] self.kind = "Enum" ->
             Bind(TypeSumEnum_into_compact(self.v, ctx), LAMBDA r :
                 Done(r.ctx, [kind |-> "Enum", v |-> r.out]))

(***************************************************************************)
(* The sum types a producer hands over for compaction.                     *)
(***************************************************************************)
\* ClikeEnumVariant::new(name, discriminant)    sum.rs:145-153
ClikeEnumVariant_new(name, discriminant) ==
    [name |-> name, discriminant |-> discriminant]

\* EnumVariantUnit::new / EnumVariantStruct::new / EnumVariantTupleStruct::new
\*                                              sum.rs:270-272, 313-321, 365-373
EnumVariantUnit_new(name) ==
    [kind |-> "Unit", v |-> [name |-> name]]

EnumVariantStruct_new(name, fields) ==
    [kind |-> "Struct", v |-> [name |-> name, fields |-> fields]]

EnumVariantTupleStruct_new(name, fields) ==
    [kind |-> "TupleStruct", v |-> [name |-> name, fields |-> fields]]

\* TypeSumClikeEnum::new / TypeSumEnum::new     sum.rs:93-101, 198-206
TypeSumClikeEnum_new(path, variants) ==
    [kind |-> "ClikeEnum", v |-> [path |-> path, variants |-> variants]]

TypeSumEnum_new(path, variants) ==
    [kind |-> "Enum", v |-> [path |-> path, variants |-> variants]]

NamedField_new(name, T) == [name |-> name, ty |-> MetaType_new(T)]

UnnamedField_new(T) == [ty |-> MetaType_new(T)]

TypePath_new(name, namespace, params) ==
    [name |-> name, namespace |-> namespace, type_params |-> params]

\* enum E in module m, and enum A<List> in module m::A.
Paths ==
    { TypePath_new("E", <<"m">>, <<>>),
      TypePath_new("A", <<"m", "A">>, <<MetaType_new("List")>>) }

\* A, B = 42, and a second A = 1337.
ClikeVariants ==
    { ClikeEnumVariant_new("A", 0),
      ClikeEnumVariant_new("B", 42),
      ClikeEnumVariant_new("A", 1337) }

\* A, B { f: List, A: str }, A(List, List)
EnumVariants ==
    { EnumVariantUnit_new("A"),
      EnumVariantStruct_new("B", <<NamedField_new("f", "List"),
                                   NamedField_new("A", "Str")>>),
      EnumVariantTupleStruct_new("A", <<UnnamedField_new("List"),
                                        UnnamedField_new("List")>>) }

SumTypes ==
    {TypeSumClikeEnum_new(p, vs) :
        p \in Paths, vs \in SeqsUpTo(ClikeVariants, MaxVariants)}
    \cup
    {TypeSumEnum_new(p, vs) :
        p \in Paths, vs \in SeqsUpTo(EnumVariants, MaxVariants)}

(***************************************************************************)
(* A compaction pass: a fresh Registry, then into_compact of one value     *)
(* after another into it.                                                  *)
(***************************************************************************)
NoSum == TypeSumClikeEnum_new(TypePath_new("", <<>>, <<>>), <<>>)

InitCp ==
    /\ registry = Registry_new
    /\ cp_calls = 0
    /\ cp_in = NoSum
    /\ cp_out = NoSum
    /\ cp_before = Registry_new
    /\ cp_log = <<>>

IntoCompact ==
    /\ cp_calls < MaxCalls
    /\ \E sum \in SumTypes :
        \E r \in {TypeSum_into_compact(sum, Ctx(registry, <<>>))} :
            /\ registry' = [strings |-> r.ctx.strings, types |-> r.ctx.types]
            /\ cp_in' = sum
            /\ cp_out' = r.out
            /\ cp_log' = r.ctx.log
    /\ cp_before' = registry
    /\ cp_calls' = cp_calls + 1
    /\ UNCHANGED notCp

NextCp == IntoCompact

(***************************************************************************)
(* The whole model, and one specification per component (the other         *)
(* components stand still in their initial state).                         *)
(***************************************************************************)
IdleNs ==
    /\ ns_pc = "call"
    /\ ns_op = "new"
    /\ ns_segments = <<>>
    /\ ns_path = <<>>
    /\ ns_result = MissingSegments
    /\ stdout = <<>>

Init == InitNs /\ InitMt /\ InitCp

Next == NextNs \/ NextMt \/ NextCp

Spec == Init /\ [][Next]_vars

InitNamespace == InitNs /\ InitMt /\ InitCp

SpecNamespace == InitNamespace /\ [][NextNs]_vars

InitMetaType == IdleNs /\ InitMt /\ InitCp

SpecMetaType == InitMetaType /\ [][NextMt]_vars

InitCompact == IdleNs /\ InitMt /\ InitCp

SpecCompact == InitCompact /\ [][NextCp]_vars

(***************************************************************************)
(* What the documentation calls a valid identifier, stated on code points: *)
(* non-empty, ASCII, a letter or '_' first, then letters, digits or '_'.   *)
(***************************************************************************)
Letters == (65..90) \cup (97..122)
Digits == 48..57

ValidIdentifier(s) ==
    /\ s # <<>>
    /\ \A i \in 1..Len(s) : s[i] < 128
    /\ s[1] \in Letters \cup {95}
    /\ \A i \in 2..Len(s) : s[i] \in Letters \cup Digits \cup {95}

AllValid(segs) == \A i \in 1..Len(segs) : ValidIdentifier(segs[i])

\* The smallest 0-based index of a segment that is not a valid identifier.
FirstInvalid(segs) ==
    (CHOOSE k \in 1..Len(segs) :
        /\ ~ValidIdentifier(segs[k])
        /\ \A j \in 1..(k - 1) : ValidIdentifier(segs[j])) - 1

NewDone == ns_pc = "done" /\ ns_op = "new"
FromStrDone == ns_pc = "done" /\ ns_op = "from_str"

\* C1: Namespace::new on a non-empty list of valid identifiers returns Ok and
\* the stored segments are the list itself: same length, elements and order.
C1_ValidListRoundTrips ==
    (NewDone /\ ns_segments # <<>> /\ AllValid(ns_segments)) =>
        /\ ns_result.tag = "Ok"
        /\ Len(ns_result.segments) = Len(ns_segments)
        /\ \A i \in 1..Len(ns_segments) : ns_result.segments[i] = ns_segments[i]

\* A list of three valid, pairwise different segments was accepted.
C1_Witness ==
    /\ NewDone
    /\ Len(ns_segments) = 3
    /\ AllValid(ns_segments)
    /\ ns_segments[1] # ns_segments[2]
    /\ ns_segments[2] # ns_segments[3]
    /\ ns_segments[1] = <<90, 57>>
    /\ ns_result.tag = "Ok"

\* C2: Namespace::new on a list with an invalid segment returns
\* InvalidIdentifier{segment: k}, k the smallest index of an invalid segment;
\* no Namespace is produced and the segments after k are never examined.
C2_FirstInvalidReported ==
    (NewDone /\ ns_segments # <<>> /\ ~AllValid(ns_segments)) =>
        /\ ns_result = InvalidIdentifier(FirstInvalid(ns_segments))
        /\ ns_result.tag # "Ok"
        /\ ns_result.segments = <<>>
        /\ stdout = SubSeq(ns_segments, 1, FirstInvalid(ns_segments) + 1)

\* A list whose second and third segments are both invalid was rejected at
\* index 1.
C2_Witness ==
    /\ NewDone
    /\ Len(ns_segments) = 3
    /\ ValidIdentifier(ns_segments[1])
    /\ ~ValidIdentifier(ns_segments[2])
    /\ ~ValidIdentifier(ns_segments[3])
    /\ ns_result = InvalidIdentifier(1)

\* C3: Namespace::new returns MissingSegments for the empty list and for no
\* other list: a non-empty list yields Ok or InvalidIdentifier.
C3_MissingSegmentsIffEmpty ==
    NewDone =>
        /\ (ns_segments = <<>>) <=> (ns_result = MissingSegments)
        /\ (ns_segments # <<>>) => ns_result.tag \in {"Ok", "InvalidIdentifier"}

\* The empty list was rejected with MissingSegments.
C3_Witness ==
    /\ NewDone
    /\ ns_segments = <<>>
    /\ ns_result.tag = "MissingSegments"

(***************************************************************************)
(* Segments joined by "::", the textual form of a namespace.               *)
(***************************************************************************)
RECURSIVE Join(_)
Join(segs) ==
    IF segs = <<>> THEN <<>>
    ELSE IF Len(segs) = 1 THEN segs[1]
    ELSE segs[1] \o <<58, 58>> \o Join(Tail(segs))

\* The pieces of the path handed to from_str.
PathSegments == split(ns_path, 1, <<>>, <<>>)

HasEmptySegment(segs) == \E k \in 1..Len(segs) : segs[k] = <<>>

\* The 0-based index of the first empty segment.
FirstEmpty(segs) ==
    (CHOOSE k \in 1..Len(segs) :
        /\ segs[k] = <<>>
        /\ \A j \in 1..(k - 1) : segs[j] # <<>>) - 1

\* The result of from_str is that of new on the pieces of the path, the
\* pieces joined by "::" give the path back, and MissingSegments never occurs.
FromStrForwardsToNew ==
    /\ Join(PathSegments) = ns_path
    /\ PathSegments # <<>>
    /\ AllValid(PathSegments) => ns_result = Ok(PathSegments)
    /\ ~AllValid(PathSegments) =>
           ns_result = InvalidIdentifier(FirstInvalid(PathSegments))
    /\ ns_result.tag # "MissingSegments"
    /\ (ns_path = <<>>) => ns_result = InvalidIdentifier(0)

\* C4 as stated: from_str gives the result of new on the path split on "::";
\* it never returns MissingSegments, the empty path gives InvalidIdentifier 0,
\* and a path with a leading, trailing or doubled separator gives
\* InvalidIdentifier at the index of the resulting empty segment.
C4_Original ==
    FromStrDone =>
        /\ FromStrForwardsToNew
        /\ HasEmptySegment(PathSegments) =>
               ns_result = InvalidIdentifier(FirstEmpty(PathSegments))

\* C4 as amended: as C4, but a path with a leading, trailing or doubled
\* separator gives InvalidIdentifier at the index of its first segment that
\* is not a valid identifier; that is the index of the first empty segment
\* when every segment before it is a valid identifier, and a smaller index
\* otherwise.
C4_FromStrSplitsAndForwards ==
    FromStrDone =>
        /\ FromStrForwardsToNew
        /\ HasEmptySegment(PathSegments) =>
               /\ ns_result.tag = "InvalidIdentifier"
               /\ ns_result.segment <= FirstEmpty(PathSegments)
               /\ AllValid(SubSeq(PathSegments, 1, FirstEmpty(PathSegments))) =>
                      ns_result.segment = FirstEmpty(PathSegments)

\* The path "a::" was split into "a" and "" and rejected at index 1.
C4_Witness ==
    /\ FromStrDone
    /\ ns_path = <<97, 58, 58>>
    /\ PathSegments = << <<97>>, <<>> >>
    /\ ns_result = InvalidIdentifier(1)

(***************************************************************************)
(* MetaType: identity.                                                     *)
(***************************************************************************)
TokenOf(i) == handles[i].any_id

TokenOrder(x, y) ==
    CASE x < y -> "Less"
      [] x = y -> "Equal"
      [] x > y -> "Greater"

\* C5: equality, partial_cmp, cmp and hash of handles are decided by the
\* identity tokens alone: eq is equality of the tokens, cmp their order (Equal
\* exactly when the handles are equal), equal handles hash equally, and none
\* of the four invokes a resolver, self-referential types included.
C5_IdentityOnly ==
    /\ mt_op.op \in {"eq", "partial_cmp", "cmp", "hash"} => mt_op.calls = <<>>
    /\ mt_op.op = "eq" =>
           mt_op.result = (TokenOf(mt_op.a) = TokenOf(mt_op.b))
    /\ mt_op.op = "cmp" =>
           /\ mt_op.result = TokenOrder(TokenOf(mt_op.a), TokenOf(mt_op.b))
           /\ (mt_op.result = "Equal") <=> (TokenOf(mt_op.a) = TokenOf(mt_op.b))
    /\ mt_op.op = "partial_cmp" =>
           mt_op.result = <<"Some", TokenOrder(TokenOf(mt_op.a), TokenOf(mt_op.b))>>
    /\ mt_op.op = "hash" =>
           /\ mt_op.result = <<TokenOf(mt_op.a)>>
           /\ (mt_prev.op = "hash" /\ TokenOf(mt_prev.a) = TokenOf(mt_op.a)) =>
                  mt_op.result = mt_prev.result

\* Two separately built handles of the self-referential type were compared
\* equal without a resolver being invoked.
C5_Witness ==
    /\ mt_op.op = "eq"
    /\ mt_op.a # mt_op.b
    /\ mt_op.calls = <<>>
    /\ made[mt_op.a].T = "List"
    /\ made[mt_op.b].T = "List"
    /\ mt_op.result = TRUE

\* C6: handles built for the same type, by new or by of and however many
\* were built before, carry equal tokens and compare equal; handles of
\* different types carry different tokens and compare unequal; type_id() and
\* type_def() of handles of one type return equal graphs on every call; and
\* construction invokes no resolver.
C6_SameTypeSameHandle ==
    /\ \A i, j \in 1..Len(handles) :
           (made[i].T = made[j].T) <=> (TokenOf(i) = TokenOf(j))
    /\ mt_op.op = "eq" =>
           mt_op.result = (made[mt_op.a].T = made[mt_op.b].T)
    /\ mt_op.op = "cmp" =>
           (mt_op.result = "Equal") <=> (made[mt_op.a].T = made[mt_op.b].T)
    /\ mt_op.op = "partial_cmp" =>
           (mt_op.result = <<"Some", "Equal">>)
               <=> (made[mt_op.a].T = made[mt_op.b].T)
    /\ mt_op.op \in {"new", "of"} => mt_op.calls = <<>>
    /\ (/\ mt_op.op \in {"type_id", "type_def"}
        /\ mt_prev.op = mt_op.op
        /\ made[mt_prev.a].T = made[mt_op.a].T) =>
           mt_op.result = mt_prev.result
    /\ (mt_op.op = "any_id" /\ mt_prev.op = "any_id") =>
           (mt_op.result = mt_prev.result)
               <=> (made[mt_prev.a].T = made[mt_op.a].T)

\* type_def() was called on two handles of one type, one built by new and
\* one by of, and returned the same graph both times.
C6_Witness ==
    /\ mt_op.op = "type_def"
    /\ mt_prev.op = "type_def"
    /\ mt_op.a # mt_prev.a
    /\ made[mt_op.a] = [T |-> "List", by |-> "of"]
    /\ made[mt_prev.a] = [T |-> "List", by |-> "new"]
    /\ TokenOf(mt_op.a) = TokenOf(mt_prev.a)
    /\ mt_op.result = mt_prev.result

(***************************************************************************)
(* Compaction: what the indices of a compact value denote in the Registry. *)
(***************************************************************************)
StringAt(i) ==
    IF i + 1 \in 1..Len(registry.strings) THEN registry.strings[i + 1]
    ELSE "<no entry>"

TypeAt(i) ==
    IF i + 1 \in 1..Len(registry.types) THEN registry.types[i + 1].id
    ELSE None

Compacted == cp_calls >= 1

\* The interning requests for strings made by the last call.
StringRequests == {k \in 1..Len(cp_log) : cp_log[k].kind = "string"}

\* The names of the variants of the last input, and the indices they became.
VariantNameIn(i) == cp_in.v.variants[i].name
VariantNameOut(i) == cp_out.v.variants[i].name
EnumVariantNameIn(i) == cp_in.v.variants[i].v.name
EnumVariantNameOut(i) == cp_out.v.variants[i].v.name
NameIn(i) == IF cp_in.kind = "ClikeEnum" THEN VariantNameIn(i)
             ELSE EnumVariantNameIn(i)
NameOut(i) == IF cp_out.kind = "ClikeEnum" THEN VariantNameOut(i)
              ELSE EnumVariantNameOut(i)
SameVariantCount == Len(cp_out.v.variants) = Len(cp_in.v.variants)

InTable(table, s) == \E i \in 1..Len(table) : table[i] = s

\* The strings among the requests before request k that the table did not
\* hold when the call began.
NewBefore(k) ==
    {cp_log[j].arg : j \in {j \in StringRequests : j < k
                              /\ ~InTable(cp_before.strings, cp_log[j].arg)}}

\* C7: over the into_compact calls on one Registry the string table only
\* grows: the table before a call is a prefix of the table after it, every
\* index handed out (to a request, or in the compact value) denotes its
\* string after all later internings of the call, and a string the table did
\* not hold receives the next unused index.
C7_StringTableOnlyGrows ==
    Compacted =>
        /\ Len(cp_before.strings) <= Len(registry.strings)
        /\ \A i \in 1..Len(cp_before.strings) :
               registry.strings[i] = cp_before.strings[i]
        /\ \A k \in StringRequests : StringAt(cp_log[k].idx) = cp_log[k].arg
        /\ SameVariantCount
        /\ \A i \in 1..Len(cp_in.v.variants) : StringAt(NameOut(i)) = NameIn(i)
        /\ \A k \in StringRequests :
               (/\ ~InTable(cp_before.strings, cp_log[k].arg)
                /\ cp_log[k].arg \notin NewBefore(k)) =>
                   cp_log[k].idx = Len(cp_before.strings) + Cardinality(NewBefore(k))

\* The second call on a Registry found a string of the first call and added
\* a new one behind the old entries.
C7_Witness ==
    /\ cp_calls = 2
    /\ cp_in.kind = "ClikeEnum"
    /\ Len(cp_before.strings) >= 2
    /\ Len(registry.strings) > Len(cp_before.strings)
    /\ \E k \in StringRequests : cp_log[k].idx < Len(cp_before.strings)
    /\ \E k \in StringRequests : cp_log[k].idx >= Len(cp_before.strings)
    /\ Len(cp_in.v.variants) = 2
    /\ VariantNameOut(1) < Len(cp_before.strings)
    /\ VariantNameOut(2) >= Len(cp_before.strings)

\* C8: compaction deduplicates strings: the table holds each string once,
\* all requests for one string get one index, requests for different strings
\* get different indices, and so do the variant names of the compact value.
C8_StringsDeduplicated ==
    Compacted =>
        /\ \A i, j \in 1..Len(registry.strings) :
               registry.strings[i] = registry.strings[j] => i = j
        /\ \A j, k \in StringRequests :
               (cp_log[j].arg = cp_log[k].arg) <=> (cp_log[j].idx = cp_log[k].idx)
        /\ SameVariantCount
        /\ \A i, j \in 1..Len(cp_in.v.variants) :
               (NameIn(i) = NameIn(j)) <=> (NameOut(i) = NameOut(j))

\* An enum with two variants of one name, a name the Registry already held,
\* was compacted: both became the old index.
C8_Witness ==
    /\ cp_calls = 2
    /\ cp_in.kind = "Enum"
    /\ Len(cp_in.v.variants) = 2
    /\ cp_in.v.variants[1].kind = "Unit"
    /\ cp_in.v.variants[2].kind = "TupleStruct"
    /\ EnumVariantNameIn(1) = EnumVariantNameIn(2)
    /\ InTable(cp_before.strings, EnumVariantNameIn(1))
    /\ EnumVariantNameOut(1) = EnumVariantNameOut(2)
    /\ EnumVariantNameOut(1) < Len(cp_before.strings)
    /\ Cardinality({i \in 1..Len(registry.strings) :
                       registry.strings[i] = EnumVariantNameIn(1)}) = 1

(***************************************************************************)
(* Compaction: the shape of the compact value.                             *)
(***************************************************************************)
\* A field of the input and the field of the output at the same position
\* agree: same name (if named) and same type identity.
NamedFieldKept(fin, fout) ==
    /\ StringAt(fout.name) = fin.name
    /\ TypeAt(fout.ty) = fin.ty.any_id

UnnamedFieldKept(fin, fout) ==
    /\ DOMAIN fout = {"ty"}
    /\ TypeAt(fout.ty) = fin.ty.any_id

EnumVariantKept(vin, vout) ==
    /\ vout.kind = vin.kind
    /\ StringAt(vout.v.name) = vin.v.name
    /\ vin.kind = "Unit" => DOMAIN vout.v = {"name"}
    /\ vin.kind # "Unit" =>
           /\ DOMAIN vout.v = {"name", "fields"}
           /\ Len(vout.v.fields) = Len(vin.v.fields)
           /\ \A j \in 1..Len(vin.v.fields) :
                  IF vin.kind = "Struct"
                  THEN NamedFieldKept(vin.v.fields[j], vout.v.fields[j])
                  ELSE UnnamedFieldKept(vin.v.fields[j], vout.v.fields[j])

ClikeVariantKept(vin, vout) ==
    /\ StringAt(vout.name) = vin.name
    /\ vout.discriminant = vin.discriminant

\* C10: compaction keeps the shape of a sum type: the same outer kind, the
\* same number of variants in the same order, variant i of the output being
\* variant i of the input with its kind, its fields in number and order, and
\* for a C-like variant its discriminant unchanged.
C10_ShapePreserved ==
    Compacted =>
        /\ cp_out.kind = cp_in.kind
        /\ SameVariantCount
        /\ \A i \in 1..Len(cp_in.v.variants) :
               IF cp_in.kind = "ClikeEnum"
               THEN ClikeVariantKept(cp_in.v.variants[i], cp_out.v.variants[i])
               ELSE EnumVariantKept(cp_in.v.variants[i], cp_out.v.variants[i])

\* An enum of a struct variant with two fields followed by a tuple-struct
\* variant with two fields was compacted into a Registry used before.
C10_Witness ==
    /\ cp_calls = 2
    /\ cp_in.kind = "Enum"
    /\ cp_out.kind = "Enum"
    /\ Len(cp_in.v.variants) = 2
    /\ cp_in.v.variants[1].kind = "Struct"
    /\ cp_in.v.variants[2].kind = "TupleStruct"
    /\ cp_out.v.variants[1].kind = "Struct"
    /\ cp_out.v.variants[2].kind = "TupleStruct"
    /\ Len(cp_out.v.variants[1].v.fields) = 2
    /\ Len(cp_out.v.variants[2].v.fields) = 2

(***************************************************************************)
(* Compaction: the order of the interning requests.                        *)
(***************************************************************************)
\* An interning request, by what was asked for.
StringReq(s) == [kind |-> "string", s |-> s, t |-> None]
TypeReq(t) == [kind |-> "type", s |-> "", t |-> t]

\* The requests of the last call, in the order they reached the Registry.
Requested ==
    [k \in 1..Len(cp_log) |->
        IF cp_log[k].kind = "string" THEN StringReq(cp_log[k].arg)
        ELSE TypeReq(cp_log[k].arg)]

\* The declaration of a sum type read depth-first, left to right.
StringsOf(names) == [i \in 1..Len(names) |-> StringReq(names[i])]

TypeIdDecl(tid) ==
    IF tid.variant = "Primitive" THEN <<>>
    ELSE <<StringReq(tid.name)>> \o StringsOf(tid.namespace)

TypeDecl(ty) == TypeIdDecl(HasTypeId_type_id(ty.fn_type_id.for)) \o <<TypeReq(ty.any_id)>>

RECURSIVE TypesDecl(_)
TypesDecl(tys) ==
    IF tys = <<>> THEN <<>> ELSE TypeDecl(Head(tys)) \o TypesDecl(Tail(tys))

PathDecl(path) ==
    <<StringReq(path.name)>> \o StringsOf(path.namespace) \o TypesDecl(path.type_params)

FieldDecl(kind, f) ==
    IF kind = "Struct" THEN <<StringReq(f.name)>> \o TypeDecl(f.ty)
    ELSE TypeDecl(f.ty)

RECURSIVE FieldsDecl(_, _)
FieldsDecl(kind, fields) ==
    IF fields = <<>> THEN <<>>
    ELSE FieldDecl(kind, Head(fields)) \o FieldsDecl(kind, Tail(fields))

VariantDecl(sumKind, v) ==
    IF sumKind = "ClikeEnum" THEN <<StringReq(v.name)>>
    ELSE IF v.kind = "Unit" THEN <<StringReq(v.v.name)>>
    ELSE <<StringReq(v.v.name)>> \o FieldsDecl(v.kind, v.v.fields)

RECURSIVE VariantsDecl(_, _)
VariantsDecl(sumKind, variants) ==
    IF variants = <<>> THEN <<>>
    ELSE VariantDecl(sumKind, Head(variants)) \o VariantsDecl(sumKind, Tail(variants))

SumDecl(sum) == PathDecl(sum.v.path) \o VariantsDecl(sum.kind, sum.v.variants)

\* The request at which a string was first met in the last call.
FirstMet(s) ==
    CHOOSE k \in StringRequests :
        /\ cp_log[k].arg = s
        /\ \A j \in StringRequests : cp_log[j].arg = s => k <= j

FreshRegistry == cp_before = Registry_new

\* C11: into_compact of a sum type asks the Registry to intern in the
\* depth-first, left-to-right order of the declaration: the requests are the
\* path's, then those of variant 1, variant 2, ... each variant's name before
\* its fields and field j before field j + 1.  From a fresh Registry the
\* string indices follow the first meeting: a string first met before another
\* has the smaller index, in the requests' answers and in the table.
C11_DepthFirstLeftToRight ==
    Compacted =>
        /\ Requested = SumDecl(cp_in)
        /\ FreshRegistry =>
               \A j, k \in StringRequests :
                   FirstMet(cp_log[j].arg) < FirstMet(cp_log[k].arg) =>
                       /\ cp_log[j].idx < cp_log[k].idx
                       /\ IndexOf(registry.strings, cp_log[j].arg)
                              < IndexOf(registry.strings, cp_log[k].arg)

\* enum A<List> { B { f: List, A: str }, A(List, List) } was compacted into a
\* fresh Registry: the table is the strings in the order of first meeting.
C11_Witness ==
    /\ cp_calls = 1
    /\ FreshRegistry
    /\ cp_in.kind = "Enum"
    /\ cp_in.v.path.name = "A"
    /\ Len(cp_in.v.variants) = 2
    /\ cp_in.v.variants[1].kind = "Struct"
    /\ cp_in.v.variants[2].kind = "TupleStruct"
    /\ registry.strings = <<"A", "m", "List", "B", "f">>
    /\ EnumVariantNameOut(1) = 3
    /\ EnumVariantNameOut(2) = 0
    /\ cp_out.v.variants[1].v.fields[1].name = 4
    /\ cp_out.v.variants[1].v.fields[2].name = 0
====
